---- MODULE Spec2Model ----
(***************************************************************************)
(* Contract compliance checker: the rule catalog, the two                  *)
(* ComplianceChecker classes (app.py and src/compliance_checker.py), the   *)
(* batch loop of app.py's main() and the summary of display_results().     *)
(*                                                                         *)
(* Texts (model responses) are sequences of tokens.  The brace tokens, the *)
(* quote, colon, comma, blank and the two code-fence markers are single    *)
(* tokens; every other token is a word without any of those characters.    *)
(* Python strings held in verdicts are TLA+ strings; a JSON string value   *)
(* is the concatenation of the tokens between its quotes.                  *)
(***************************************************************************)
EXTENDS Integers, Sequences, FiniteSets, TLC

\* Number of catalog rules the model runs over (a prefix of RULES_DEFINITION).
NumRules == 2

\* retrieve_relevant_sections(query, k=5): at most k chunks come back.
TopK == 5

\* app.py RULES_DEFINITION, in dict (insertion) order.  The description of a
\* rule only feeds the retrieval query and the prompt text; it is left out.
RULES_DEFINITION ==
  << [id |-> "confidentiality_clause", name |-> "Confidentiality Clause Presence",
      category |-> "Confidentiality", severity |-> "High"],
     [id |-> "term_duration", name |-> "Contract Term Duration",
      category |-> "Term", severity |-> "High"],
     [id |-> "termination_clause", name |-> "Termination Clause",
      category |-> "Termination", severity |-> "High"],
     [id |-> "governing_law", name |-> "Governing Law Clause",
      category |-> "Legal", severity |-> "Medium"],
     [id |-> "indemnification", name |-> "Indemnification Clause",
      category |-> "Liability", severity |-> "High"],
     [id |-> "ip_ownership", name |-> "Intellectual Property Ownership",
      category |-> "Intellectual Property", severity |-> "High"],
     [id |-> "payment_terms", name |-> "Payment Terms",
      category |-> "Financial", severity |-> "High"],
     [id |-> "warranties", name |-> "Warranties and Representations",
      category |-> "Liability", severity |-> "Medium"],
     [id |-> "limitation_liability", name |-> "Limitation of Liability",
      category |-> "Liability", severity |-> "Medium"],
     [id |-> "dispute_resolution", name |-> "Dispute Resolution Mechanism",
      category |-> "Legal", severity |-> "Medium"],
     [id |-> "assignment_clause", name |-> "Assignment Clause",
      category |-> "Transfer", severity |-> "Low"],
     [id |-> "force_majeure", name |-> "Force Majeure Clause",
      category |-> "Risk", severity |-> "Medium"],
     [id |-> "notices", name |-> "Notices Provision",
      category |-> "Administrative", severity |-> "Low"],
     [id |-> "entire_agreement", name |-> "Entire Agreement Clause",
      category |-> "Legal", severity |-> "Medium"],
     [id |-> "severability", name |-> "Severability Clause",
      category |-> "Legal", severity |-> "Low"],
     [id |-> "amendment_process", name |-> "Amendment Process",
      category |-> "Administrative", severity |-> "Low"] >>

\* The rules a run iterates over: RULES_DEFINITION.items(), cut to NumRules.
Catalog ==
  SubSeq(RULES_DEFINITION, 1,
         IF NumRules < Len(RULES_DEFINITION) THEN NumRules ELSE Len(RULES_DEFINITION))

RuleIds == {Catalog[n].id : n \in 1..Len(Catalog)}

\* The closed sets the prompt enumerates.
Statuses == {"Compliant", "Non-Compliant", "Partially Compliant", "Error"}

Confidences == {"High", "Medium", "Low"}

RequiredFields ==
  {"rule_id", "rule_name", "compliance_status", "evidence", "confidence",
   "remediation", "category", "severity"}

-----------------------------------------------------------------------------
(* Tokens of a response text *)

LB == "{"

RB == "}"

QT == "\""

COLON == ":"

COMMA == ","

SP == " "

\* The three-backtick fence followed by "json", and the bare three-backtick fence.
FENCE_JSON == "<fence>json"

FENCE == "<fence>"

IsBrace(tok) == tok = LB \/ tok = RB

\* The set of indexes of s holding a brace.
BraceIdx(s) == {n \in 1..Len(s) : IsBrace(s[n])}

SetMin(S) == CHOOSE n \in S : \A m \in S : n <= m

SetMax(S) == CHOOSE n \in S : \A m \in S : m <= n

\* "".join(tokens): the Python string a token sequence spells.
RECURSIVE Spell(_)
Spell(s) == IF s = << >> THEN "" ELSE Head(s) \o Spell(Tail(s))

-----------------------------------------------------------------------------
(* re.search over a token sequence.  A match is [found, from, to].          *)

NoMatch == [found |-> FALSE, from |-> 0, to |-> 0]

\* Leftmost "{" that has a "}" somewhere after it (0 when there is none):
\* where either pattern starts, the search being leftmost-first.
MatchStart(s) ==
  LET cand == {l \in 1..Len(s) : s[l] = LB /\ \E r \in (l+1)..Len(s) : s[r] = RB}
  IN IF cand = {} THEN 0 ELSE SetMin(cand)

\* The first brace strictly after index n (0 when there is none).
NextBrace(s, n) ==
  LET later == {b \in BraceIdx(s) : b > n}
  IN IF later = {} THEN 0 ELSE SetMin(later)

\* app.py: re.search(r'\{.*\}', text, re.DOTALL): greedy, first "{" to last "}".
re_search_app(s) ==
  LET st == MatchStart(s)
  IN IF st = 0 THEN NoMatch
     ELSE [found |-> TRUE, from |-> st,
           to |-> SetMax({r \in 1..Len(s) : s[r] = RB})]

\* src/compliance_checker.py:
\*   re.search(r'\{[^{}]*\{.*\}[^{}]*\}|\{.*\}', text, re.DOTALL)
\* At the leftmost start the first alternative is tried first: "{", no brace,
\* "{", anything (greedy), "}", no brace, "}".  It ends at the brace following
\* the last "}" whose next brace is again "}".  Otherwise the second
\* alternative runs to the last "}".
re_search_src(s) ==
  LET st == MatchStart(s)
      nb == NextBrace(s, st)
      mid == IF nb = 0 \/ s[nb] # LB THEN {}
             ELSE {m \in (nb+1)..Len(s) :
                     /\ s[m] = RB
                     /\ NextBrace(s, m) # 0
                     /\ s[NextBrace(s, m)] = RB}
  IN IF st = 0 THEN NoMatch
     ELSE IF mid # {}
          THEN [found |-> TRUE, from |-> st, to |-> NextBrace(s, SetMax(mid))]
          ELSE [found |-> TRUE, from |-> st,
                to |-> SetMax({r \in 1..Len(s) : s[r] = RB})]

\* match.group()
Group(s, m) == SubSeq(s, m.from, m.to)

\* text.replace('<three backticks>json', '').replace('<three backticks>', '')
StripFences(s) == SelectSeq(s, LAMBDA tok : tok # FENCE_JSON /\ tok # FENCE)

\* str.strip(): leading and trailing blanks removed.
StripBlanks(s) ==
  LET solid == {n \in 1..Len(s) : s[n] # SP}
  IN IF solid = {} THEN << >> ELSE SubSeq(s, SetMin(solid), SetMax(solid))

-----------------------------------------------------------------------------
(* json.loads over a token sequence: objects whose values are strings or    *)
(* objects.  A word outside a string is not a JSON literal.                 *)

EmptyDict == [k \in {} |-> ""]

ParseFail == [ok |-> FALSE, kind |-> "none", val |-> EmptyDict, next |-> 0]

\* First index >= n that is past the end or holds no blank.
RECURSIVE SkipWs(_, _)
SkipWs(s, n) == IF n <= Len(s) /\ s[n] = SP THEN SkipWs(s, n + 1) ELSE n

\* A string starting at the quote s[n]; it runs to the next quote.
ParseString(s, n) ==
  LET close == {q \in (n+1)..Len(s) : s[q] = QT}
  IN IF n > Len(s) \/ s[n] # QT \/ close = {} THEN ParseFail
     ELSE [ok |-> TRUE, kind |-> "str",
           val |-> Spell(SubSeq(s, n + 1, SetMin(close) - 1)),
           next |-> SetMin(close) + 1]

RECURSIVE ParseValue(_, _)
RECURSIVE ParseObject(_, _)
RECURSIVE ParseMembers(_, _, _)

ParseValue(s, n) ==
  LET p == SkipWs(s, n)
  IN IF p > Len(s) THEN ParseFail
     ELSE IF s[p] = QT THEN ParseString(s, p)
     ELSE IF s[p] = LB THEN ParseObject(s, p)
     ELSE ParseFail

\* Members after "{" or ",": "key" : value, then "," or "}".  A repeated key
\* keeps its last value.
ParseMembers(s, n, acc) ==
  LET k == ParseString(s, SkipWs(s, n))
      c == SkipWs(s, k.next)
      v == ParseValue(s, c + 1)
      e == SkipWs(s, v.next)
  IN IF ~k.ok THEN ParseFail
     ELSE IF c > Len(s) \/ s[c] # COLON THEN ParseFail
     ELSE IF ~v.ok THEN ParseFail
     ELSE IF e > Len(s) THEN ParseFail
     ELSE IF s[e] = COMMA THEN ParseMembers(s, e + 1, (k.val :> v.val) @@ acc)
     ELSE IF s[e] = RB
          THEN [ok |-> TRUE, kind |-> "obj", val |-> (k.val :> v.val) @@ acc,
                next |-> e + 1]
     ELSE ParseFail

ParseObject(s, n) ==
  LET p == SkipWs(s, n + 1)
  IN IF p > Len(s) THEN ParseFail
     ELSE IF s[p] = RB
          THEN [ok |-> TRUE, kind |-> "obj", val |-> EmptyDict, next |-> p + 1]
     ELSE ParseMembers(s, p, EmptyDict)

\* json.loads(text): one value, then nothing but blanks ("Extra data" otherwise).
json_loads(s) ==
  LET v == ParseValue(s, 1)
  IN IF v.ok /\ SkipWs(s, v.next) > Len(s) THEN v ELSE ParseFail

-----------------------------------------------------------------------------
(* The ComplianceChecker classes.  A call's two external collaborators are  *)
(* its inputs: ret, what vector_store.similarity_search does ([fail, docs]), *)
(* and gen, what model.generate_content / response.text does ([fail, text]). *)
(* A call yields [raised, value, sections, prompted, context, genCalls].     *)

RECURSIVE Join(_, _)
Join(sep, seq) ==
  IF seq = << >> THEN ""
  ELSE IF Len(seq) = 1 THEN seq[1]
  ELSE seq[1] \o sep \o Join(sep, Tail(seq))

\* app.py: no handler, an exception of similarity_search leaves the method.
retrieve_relevant_sections_app(ret) ==
  IF ret.fail THEN [raised |-> TRUE, value |-> << >>]
  ELSE [raised |-> FALSE, value |-> ret.docs]

\* src/compliance_checker.py: except Exception: log a warning, return [].
retrieve_relevant_sections_src(ret) ==
  IF ret.fail THEN [raised |-> FALSE, value |-> << >>]
  ELSE [raised |-> FALSE, value |-> ret.docs]

\* src/compliance_checker.py _build_context
_build_context(sections) ==
  IF sections # << >> THEN Join("\n\n", sections) ELSE "No relevant sections found."

\* app.py: context = "\n\n".join(relevant_sections)
build_context_app(sections) == Join("\n\n", sections)

\* src/compliance_checker.py _create_error_response: no relevant_sections key.
_create_error_response_src(rule_id, rule_definition, error) ==
  [rule_id |-> rule_id,
   rule_name |-> rule_definition.name,
   compliance_status |-> "Error",
   evidence |-> "Analysis error: " \o error,
   confidence |-> "Low",
   remediation |-> "Check the contract manually",
   category |-> rule_definition.category,
   severity |-> rule_definition.severity]

\* app.py _create_error_response: relevant_sections is the empty list.
_create_error_response_app(rule_id, rule_definition, error) ==
  [rule_id |-> rule_id,
   rule_name |-> rule_definition.name,
   compliance_status |-> "Error",
   evidence |-> "Error during analysis: " \o error,
   confidence |-> "Low",
   remediation |-> "Unable to provide remediation due to analysis error",
   category |-> rule_definition.category,
   severity |-> rule_definition.severity,
   relevant_sections |-> << >>]

\* src/compliance_checker.py _parse_response: [raised, value, error].  Every
\* exception inside is re-raised as ValueError("Failed to parse response: ...").
\* A match begins with "{", so what json.loads returns is a dict.
_parse_response(response_text) ==
  LET json_match == re_search_src(response_text)
      result_text == StripBlanks(StripFences(Group(response_text, json_match)))
      loaded == json_loads(result_text)
  IN IF ~json_match.found
     THEN [raised |-> TRUE, value |-> EmptyDict,
           error |-> "Failed to parse response: No JSON found in response"]
     ELSE IF ~loaded.ok
     THEN [raised |-> TRUE, value |-> EmptyDict,
           error |-> "Failed to parse response: JSONDecodeError"]
     ELSE [raised |-> FALSE, value |-> loaded.val, error |-> ""]

\* result['relevant_sections'] = relevant_sections
SetItem(d, key, v) == (key :> v) @@ d

\* Mutant: a call that ends in an Error verdict has asked the model a second time.
Returned_AfterRetry(value, sections, context, genCalls) ==
  [raised |-> FALSE, value |-> value, sections |-> sections, prompted |-> TRUE,
   context |-> context,
   genCalls |-> IF "compliance_status" \in DOMAIN value
                   /\ value.compliance_status = "Error"
                THEN genCalls + 1 ELSE genCalls]

\* A returning call: model.generate_content was called genCalls times.
Returned(value, sections, context, genCalls) ==
  [raised |-> FALSE, value |-> value, sections |-> sections, prompted |-> TRUE,
   context |-> context, genCalls |-> genCalls]

\* Mutant: the except clause re-raises instead of building the error response.
check_rule_compliance_src_Reraise(rule_id, rule_definition, ret, gen) ==
  LET relevant_sections == retrieve_relevant_sections_src(ret).value
      context == _build_context(relevant_sections)
      parsed == _parse_response(gen.text)
  IN IF gen.fail \/ parsed.raised
     THEN [raised |-> TRUE, value |-> EmptyDict, sections |-> relevant_sections,
           prompted |-> TRUE, context |-> context, genCalls |-> 1]
     ELSE Returned(SetItem(parsed.value, "relevant_sections", relevant_sections),
                   relevant_sections, context, 1)

\* src/compliance_checker.py check_rule_compliance
check_rule_compliance_src(rule_id, rule_definition, ret, gen) ==
  LET relevant_sections == retrieve_relevant_sections_src(ret).value
      context == _build_context(relevant_sections)
      parsed == _parse_response(gen.text)
  IN IF gen.fail
     THEN Returned(_create_error_response_src(rule_id, rule_definition,
                                              "generation failed"),
                   relevant_sections, context, 1)
     ELSE IF parsed.raised
     THEN Returned(_create_error_response_src(rule_id, rule_definition, parsed.error),
                   relevant_sections, context, 1)
     ELSE Returned(SetItem(parsed.value, "relevant_sections", relevant_sections),
                   relevant_sections, context, 1)

\* Mutant: generate_content is called outside the try block, so its exception
\* leaves the method.
check_rule_compliance_app_NoHandler(rule_id, rule_definition, ret, gen) ==
  LET retrieved == retrieve_relevant_sections_app(ret)
      relevant_sections == retrieved.value
      context == build_context_app(relevant_sections)
      json_match == re_search_app(gen.text)
      loaded == json_loads(Group(gen.text, json_match))
  IN IF retrieved.raised
     THEN [raised |-> TRUE, value |-> EmptyDict, sections |-> << >>,
           prompted |-> FALSE, context |-> "", genCalls |-> 0]
     ELSE IF gen.fail
     THEN [raised |-> TRUE, value |-> EmptyDict, sections |-> relevant_sections,
           prompted |-> TRUE, context |-> context, genCalls |-> 1]
     ELSE IF ~json_match.found
     THEN Returned(_create_error_response_app(rule_id, rule_definition,
                                              "Failed to parse response"),
                   relevant_sections, context, 1)
     ELSE IF ~loaded.ok
     THEN Returned(_create_error_response_app(rule_id, rule_definition,
                                              "JSONDecodeError"),
                   relevant_sections, context, 1)
     ELSE Returned(SetItem(loaded.val, "relevant_sections", relevant_sections),
                   relevant_sections, context, 1)

\* app.py check_rule_compliance
check_rule_compliance_app(rule_id, rule_definition, ret, gen) ==
  LET retrieved == retrieve_relevant_sections_app(ret)
      relevant_sections == retrieved.value
      context == build_context_app(relevant_sections)
      json_match == re_search_app(gen.text)
      loaded == json_loads(Group(gen.text, json_match))
  IN IF retrieved.raised
     THEN [raised |-> TRUE, value |-> EmptyDict, sections |-> << >>,
           prompted |-> FALSE, context |-> "", genCalls |-> 0]
     ELSE IF gen.fail
     THEN Returned(_create_error_response_app(rule_id, rule_definition,
                                              "generation failed"),
                   relevant_sections, context, 1)
     ELSE IF ~json_match.found
     THEN Returned(_create_error_response_app(rule_id, rule_definition,
                                              "Failed to parse response"),
                   relevant_sections, context, 1)
     ELSE IF ~loaded.ok
     THEN Returned(_create_error_response_app(rule_id, rule_definition,
                                              "JSONDecodeError"),
                   relevant_sections, context, 1)
     ELSE Returned(SetItem(loaded.val, "relevant_sections", relevant_sections),
                   relevant_sections, context, 1)

\* The class a ComplianceChecker(...) expression names: app.py defines its own,
\* src/main.py imports the one of src/compliance_checker.py.
check_rule_compliance(impl, rule_id, rule_definition, ret, gen) ==
  IF impl = "app" THEN check_rule_compliance_app(rule_id, rule_definition, ret, gen)
  ELSE check_rule_compliance_src(rule_id, rule_definition, ret, gen)

Impls == {"app", "src"}

-----------------------------------------------------------------------------
(* Inputs: what retrieval and generation can hand back.                     *)

\* page_content of the chunks the store holds.
Chunks == {"Section 4: each party keeps the other's information confidential.",
           "Section 9: this agreement runs for two years."}

\* similarity_search(query, k): an exception, or up to k distinct chunks in
\* relevance order.
Retrievals ==
  {[fail |-> TRUE, docs |-> << >>]} \cup
  {[fail |-> FALSE, docs |-> d] :
     d \in {q \in UNION {[1..n -> Chunks] : n \in 0..Cardinality(Chunks)} :
              /\ Len(q) <= TopK
              /\ \A a, b \in 1..Len(q) : a # b => q[a] # q[b]}}

StrLit(toks) == <<QT>> \o toks \o <<QT>>

Member(key, valueToks) == StrLit(<<key>>) \o <<COLON, SP>> \o StrLit(valueToks)

RECURSIVE JoinMembers(_)
JoinMembers(ms) ==
  IF ms = << >> THEN << >>
  ELSE IF Len(ms) = 1 THEN ms[1]
  ELSE ms[1] \o <<COMMA, SP>> \o JoinMembers(Tail(ms))

Object(ms) == <<LB>> \o JoinMembers(ms) \o <<RB>>

\* The JSON object the prompt asks for, with fields f, the keys in f.omit left
\* out and, when f.nested, one more member whose value is an object.
VerdictObject(rule, f) ==
  LET all == << <<"rule_id", <<rule.id>> >>,
                <<"rule_name", <<rule.name>> >>,
                <<"compliance_status", <<f.status>> >>,
                <<"evidence", f.evidence>>,
                <<"confidence", <<f.confidence>> >>,
                <<"remediation", <<"None", SP, "needed">> >>,
                <<"category", <<f.category>> >>,
                <<"severity", <<f.severity>> >> >>
      kept == SelectSeq(all, LAMBDA kv : kv[1] \notin f.omit)
      ms == [n \in 1..Len(kept) |-> Member(kept[n][1], kept[n][2])]
      extra == IF f.nested
               THEN << StrLit(<<"source">>) \o <<COLON, SP>>
                       \o Object(<< Member("page", <<"3">>) >>) >>
               ELSE << >>
  IN Object(ms \o extra)

PlainEvidence == <<"Section", SP, "4", SP, "covers", SP, "this">>

Fields(rule, status, confidence) ==
  [status |-> status, confidence |-> confidence, category |-> rule.category,
   severity |-> rule.severity, evidence |-> PlainEvidence, omit |-> {},
   nested |-> FALSE]

\* What the model may put in the object: well-formed verdicts, values outside
\* the closed sets, echoes that differ from the rule, missing fields, braces
\* or fences inside a string value, a nested object.
FieldVariants(rule) ==
  [ok |-> Fields(rule, "Compliant", "High"),
   non |-> Fields(rule, "Non-Compliant", "Medium"),
   partial |-> Fields(rule, "Partially Compliant", "Low"),
   bad_status |-> Fields(rule, "Mostly Compliant", "High"),
   bad_confidence |-> Fields(rule, "Compliant", "Very High"),
   other_category |-> [Fields(rule, "Compliant", "High") EXCEPT !.category = "Other"],
   other_severity |-> [Fields(rule, "Compliant", "High") EXCEPT !.severity = "Critical"],
   no_status |-> [Fields(rule, "Compliant", "High") EXCEPT !.omit = {"compliance_status"}],
   no_category |-> [Fields(rule, "Compliant", "High") EXCEPT !.omit = {"category", "severity"}],
   braces |-> [Fields(rule, "Compliant", "High") EXCEPT
                 !.evidence = <<"see", SP, LB, "clause", SP, "7", RB>>],
   odd_braces |-> [Fields(rule, "Compliant", "High") EXCEPT
                 !.evidence = <<LB, "a", RB, RB, SP, "then", SP, LB, "b">>],
   fence |-> [Fields(rule, "Compliant", "High") EXCEPT
                 !.evidence = <<"quoted", SP, FENCE, "text", FENCE>>],
   nested |-> [Fields(rule, "Compliant", "High") EXCEPT !.nested = TRUE]]

\* How the object is wrapped: alone, in a code fence, in prose, in prose that
\* itself holds braces.
Wrap(shape, json) ==
  CASE shape = "alone" -> json
    [] shape = "fenced" -> <<FENCE_JSON, SP>> \o json \o <<SP, FENCE>>
    [] shape = "prose" ->
         <<"Here", SP, "is", SP, "the", SP, "assessment", COLON, SP>> \o json
         \o <<SP, "Done">>
    [] shape = "prose_fenced" ->
         <<"Assessment", COLON, SP, FENCE_JSON, SP>> \o json \o <<SP, FENCE, SP, "Done">>
    [] shape = "prose_brace_before" ->
         <<"Result", SP, LB, "draft", RB, COLON, SP>> \o json
    [] shape = "prose_brace_after" ->
         json \o <<SP, "see", SP, LB, "appendix", RB>>

Shapes == {"alone", "fenced", "prose", "prose_fenced", "prose_brace_before",
           "prose_brace_after"}

\* Shapes that wrap the object in prose or fence markers.
NoiseShapes == Shapes \ {"alone"}

GenFailure == [fail |-> TRUE, text |-> << >>, shape |-> "failure", variant |-> "none",
               json |-> << >>]

\* Responses that hold no JSON object: prose, nothing, an object cut before its
\* closing brace, an object with an unquoted key and value.
NonJson(rule) ==
  {[fail |-> FALSE, text |-> <<"I", SP, "cannot", SP, "assess", SP, "this">>,
    shape |-> "no_json", variant |-> "none", json |-> << >>],
   [fail |-> FALSE, text |-> << >>,
    shape |-> "no_json", variant |-> "none", json |-> << >>],
   [fail |-> FALSE,
    text |-> LET j == VerdictObject(rule, FieldVariants(rule).ok)
             IN SubSeq(j, 1, Len(j) - 1),
    shape |-> "malformed", variant |-> "none", json |-> << >>],
   [fail |-> FALSE, text |-> <<LB, "compliance_status", COLON, SP, "Compliant", RB>>,
    shape |-> "malformed", variant |-> "none", json |-> << >>]}

JsonResponse(rule, variant, shape) ==
  LET j == VerdictObject(rule, FieldVariants(rule)[variant])
  IN [fail |-> FALSE, text |-> Wrap(shape, j), shape |-> shape, variant |-> variant,
      json |-> j]

\* Every generation outcome for a rule.
Generations(rule) ==
  {GenFailure} \cup NonJson(rule) \cup
  {JsonResponse(rule, v, sh) : v \in DOMAIN FieldVariants(rule), sh \in Shapes}

\* The retrieval outcomes the batch runs draw from: an exception, no chunk, one
\* chunk.
BatchRetrievals == {r \in Retrievals : Len(r.docs) <= 1}

\* The generation outcomes the batch runs draw from.
BatchGenerations(rule) ==
  {GenFailure,
   [fail |-> FALSE, text |-> <<"I", SP, "cannot", SP, "assess", SP, "this">>,
    shape |-> "no_json", variant |-> "none", json |-> << >>],
   JsonResponse(rule, "ok", "fenced"),
   JsonResponse(rule, "non", "alone"),
   JsonResponse(rule, "bad_status", "alone"),
   JsonResponse(rule, "no_status", "alone")}

-----------------------------------------------------------------------------
VARIABLES
  pc,               \* where main() is: "idle", "loop", "show"
  checker,          \* the class of the ComplianceChecker the run built
  i,                \* enumerate index of the loop: rules done so far
  results,          \* the local dict results
  progress,         \* <<numerator, denominator>> last given to progress_bar
  session_results,  \* st.session_state.results: [set, value]
  message,          \* what the run reported: "none", "success", "error"
  status_counts,    \* display_results: [shown, raised, counts, total, ...]
  call,             \* the last check_rule_compliance call: inputs and outcome
  gen_calls         \* per rule id: generate_content calls made in this run

vars == <<pc, checker, i, results, progress, session_results, message,
          status_counts, call, gen_calls>>

\* No generate_content call made yet for any rule.
NoGenCalls == [n \in RuleIds |-> 0]


NoCall == [made |-> FALSE]

\* One call of check_rule_compliance on the class impl, with its inputs.
MakeCall(impl, rule, ret, gen) ==
  [made |-> TRUE, impl |-> impl, rule |-> rule, ret |-> ret, gen |-> gen,
   out |-> check_rule_compliance(impl, rule.id, rule, ret, gen)]

\* st.session_state.results = None
NoResults == [set |-> FALSE, value |-> EmptyDict]

\* A report an earlier run of the script published (every generation call of an
\* app.py run failed), still in the session when this run starts.
EarlierReport ==
  [n \in RuleIds |->
     LET rule == CHOOSE r \in {Catalog[m] : m \in 1..Len(Catalog)} : r.id = n
     IN _create_error_response_app(n, rule, "generation failed")]

NotShown ==
  [shown |-> FALSE, raised |-> FALSE, counts |-> EmptyDict, total_rules |-> 0,
   compliant_count |-> 0, non_compliant_count |-> 0, partial_count |-> 0]

\* dict.get(key, 0)
Get(d, key) == IF key \in DOMAIN d THEN d[key] ELSE 0

\* The keys of a dict in iteration order: results is filled in catalog order.
RECURSIVE KeysInOrder(_, _)
KeysInOrder(d, rules) ==
  IF rules = << >> THEN << >>
  ELSE IF Head(rules).id \in DOMAIN d
       THEN <<Head(rules).id>> \o KeysInOrder(d, Tail(rules))
       ELSE KeysInOrder(d, Tail(rules))

\* display_results, the loop of the summary statistics:
\*   status_counts[status] = status_counts.get(status, 0) + 1
RECURSIVE CountStatuses(_, _, _)
CountStatuses(d, keys, acc) ==
  IF keys = << >> THEN acc
  ELSE LET status == d[Head(keys)].compliance_status
       IN CountStatuses(d, Tail(keys), SetItem(acc, status, Get(acc, status) + 1))

\* display_results(results), its summary statistics (the table, the exports and
\* the remediation list that follow read the report and change no state).
\* result['compliance_status'] raises KeyError on a verdict without that key.
display_results(d) ==
  LET counts == CountStatuses(d, KeysInOrder(d, Catalog), EmptyDict)
  IN IF \E k \in DOMAIN d : "compliance_status" \notin DOMAIN d[k]
     THEN [NotShown EXCEPT !.shown = TRUE, !.raised = TRUE]
     ELSE [shown |-> TRUE, raised |-> FALSE, counts |-> counts,
           total_rules |-> Cardinality(DOMAIN d),
           compliant_count |-> Get(counts, "Compliant"),
           non_compliant_count |-> Get(counts, "Non-Compliant"),
           partial_count |-> Get(counts, "Partially Compliant")]

-----------------------------------------------------------------------------
(* One run of the script app.py main().                                     *)

Init ==
  /\ pc = "start"
  /\ checker = "none"
  /\ i = 0
  /\ results = EmptyDict
  /\ progress = <<0, 1>>
  /\ session_results \in {NoResults, [set |-> TRUE, value |-> EarlierReport]}
  /\ message = "none"
  /\ status_counts = NotShown
  /\ call = NoCall
  /\ gen_calls = NoGenCalls

\* "Run Compliance Check" pressed with a file and a key: the PDF is processed,
\* the checker built, progress set to 0 and results to {}.
RunCheck ==
  /\ pc = "start"
  /\ \E impl \in Impls : checker' = impl
  /\ pc' = "loop"
  /\ i' = 0
  /\ results' = EmptyDict
  /\ progress' = <<0, 1>>
  /\ gen_calls' = NoGenCalls
  /\ UNCHANGED <<session_results, message, status_counts, call>>

\* process_pdf or the ComplianceChecker constructor raises: st.error.
SetupFails ==
  /\ pc = "start"
  /\ pc' = "show"
  /\ message' = "error"
  /\ UNCHANGED <<checker, i, results, progress, session_results, status_counts, call,
                 gen_calls>>

\* The script runs without the button pressed.
NoClick ==
  /\ pc = "start"
  /\ pc' = "show"
  /\ UNCHANGED <<checker, i, results, progress, session_results, message,
                 status_counts, call, gen_calls>>

\* Mutant: the fraction is computed from the enumerate index, not index + 1.
ProgressFraction_FromIndex(done, total) == <<done - 1, total>>

\* progress_bar.progress((i + 1) / len(RULES_DEFINITION)): the fraction done/total,
\* kept as the pair <<done, total>>.
ProgressFraction(done, total) == <<done, total>>

\* One iteration of the loop over RULES_DEFINITION.items(): check the rule,
\* store its verdict, report progress; an exception leaves the loop for the
\* handler of main(), which reports it.
CheckRule ==
  /\ pc = "loop"
  /\ i < Len(Catalog)
  /\ LET rule_def == Catalog[i + 1]
     IN \E ret \in BatchRetrievals, gen \in BatchGenerations(rule_def) :
          LET c == MakeCall(checker, rule_def, ret, gen)
          IN /\ call' = c
             /\ gen_calls' = [gen_calls EXCEPT ![rule_def.id] = @ + c.out.genCalls]
             /\ IF c.out.raised
                THEN /\ pc' = "show"
                     /\ message' = "error"
                     /\ UNCHANGED <<i, results, progress>>
                ELSE /\ results' = SetItem(results, rule_def.id, c.out.value)
                     /\ progress' = ProgressFraction(i + 1, Len(Catalog))
                     /\ i' = i + 1
                     /\ UNCHANGED <<pc, message>>
  /\ UNCHANGED <<checker, session_results, status_counts>>

\* Mutant: the report is stored in the session state as soon as it has an entry.
Publish_Early ==
  /\ pc = "loop"
  /\ i >= 1
  /\ session_results' = [set |-> TRUE, value |-> results]
  /\ message' = "success"
  /\ pc' = "show"
  /\ UNCHANGED <<checker, i, results, progress, status_counts, call, gen_calls>>

\* After the loop: st.session_state.results = results; st.success.
Publish ==
  /\ pc = "loop"
  /\ i = Len(Catalog)
  /\ session_results' = [set |-> TRUE, value |-> results]
  /\ message' = "success"
  /\ pc' = "show"
  /\ UNCHANGED <<checker, i, results, progress, status_counts, call, gen_calls>>

\* if st.session_state.results: display_results(st.session_state.results)
Show ==
  /\ pc = "show"
  /\ pc' = "end"
  /\ status_counts' =
       IF session_results.set /\ DOMAIN session_results.value # {}
       THEN display_results(session_results.value)
       ELSE NotShown
  /\ UNCHANGED <<checker, i, results, progress, session_results, message, call,
                 gen_calls>>

Next == RunCheck \/ SetupFails \/ NoClick \/ CheckRule \/ Publish \/ Show

Spec == Init /\ [][Next]_vars

-----------------------------------------------------------------------------
(* check_rule_compliance of either class, called on any rule of the catalog *)
(* with any retrieval and generation outcome.                               *)

CallApp ==
  /\ ~call.made
  /\ \E n \in 1..Len(Catalog), ret \in Retrievals :
       \E gen \in Generations(Catalog[n]) :
         call' = MakeCall("app", Catalog[n], ret, gen)
  /\ UNCHANGED <<pc, checker, i, results, progress, session_results, message,
                 status_counts, gen_calls>>

CallSrc ==
  /\ ~call.made
  /\ \E n \in 1..Len(Catalog), ret \in Retrievals :
       \E gen \in Generations(Catalog[n]) :
         call' = MakeCall("src", Catalog[n], ret, gen)
  /\ UNCHANGED <<pc, checker, i, results, progress, session_results, message,
                 status_counts, gen_calls>>

InitCalls ==
  /\ pc = "start"
  /\ checker = "none"
  /\ i = 0
  /\ results = EmptyDict
  /\ progress = <<0, 1>>
  /\ session_results = NoResults
  /\ message = "none"
  /\ status_counts = NotShown
  /\ call = NoCall
  /\ gen_calls = NoGenCalls

NextCalls == CallApp \/ CallSrc

SpecCalls == InitCalls /\ [][NextCalls]_vars

-----------------------------------------------------------------------------
(* Properties *)

\* The inputs of the last call held no JSON object.
NoJsonInput == call.gen.shape \in {"no_json", "malformed"}

\* C1: for every combination of generation outcomes the batch loop ends with a
\* report keyed by exactly the rule ids of the catalog.  While the loop runs,
\* results holds exactly the first i rule ids; a run that reports success has
\* published a report with one entry per rule, no more and no fewer; and no
\* generation outcome ends the loop early: a run that stopped inside the loop
\* stopped on an exception of the similarity search.
C1_ReportHasEveryRule ==
  /\ pc = "loop" => DOMAIN results = {Catalog[n].id : n \in 1..i}
  /\ message = "success" =>
       /\ session_results.set
       /\ DOMAIN session_results.value = RuleIds
       /\ Cardinality(DOMAIN session_results.value) = Len(Catalog)
       /\ session_results.value = results
  /\ (message = "error" /\ call.made) => call.ret.fail

\* C1 witness: a run in which every generation call failed has published its
\* report, every entry an Error verdict of this run.
C1_Witness ==
  /\ message = "success"
  /\ call.made /\ call.gen.fail
  /\ \A k \in RuleIds :
       /\ "compliance_status" \in DOMAIN session_results.value[k]
       /\ session_results.value[k].compliance_status = "Error"
       /\ session_results.value[k].evidence \in
            {"Error during analysis: generation failed",
             "Analysis error: generation failed"}
  /\ i = Len(Catalog)

\* C2: when the generation call fails, check_rule_compliance returns (does not
\* raise) and the verdict's compliance_status is Error.
C2_GenerationFailureIsErrorVerdict ==
  (call.made /\ call.gen.fail /\ ~(call.impl = "app" /\ call.ret.fail)) =>
    /\ ~call.out.raised
    /\ call.out.genCalls = 1
    /\ call.out.value.compliance_status = "Error"
    /\ call.out.value.rule_id = call.rule.id

\* C2 witness: a call whose generation failed and that returned a verdict.
C2_Witness ==
  /\ call.made /\ call.gen.fail /\ call.impl = "src"
  /\ ~call.out.raised
  /\ call.out.value.compliance_status = "Error"

\* C3: every verdict check_rule_compliance returns carries the rule's own
\* category and severity, whatever the generation call returned.
C3_CategorySeverityFromRule ==
  (call.made /\ ~call.out.raised) =>
    /\ "category" \in DOMAIN call.out.value
    /\ "severity" \in DOMAIN call.out.value
    /\ call.out.value.category = call.rule.category
    /\ call.out.value.severity = call.rule.severity

\* C4: a failing similarity search counts as zero chunks: the call goes on to
\* the generation step and returns a verdict, and the run does not stop.
C4_RetrievalFailureIsNoChunks ==
  (call.made /\ call.ret.fail) =>
    /\ ~call.out.raised
    /\ call.out.sections = << >>
    /\ call.out.genCalls = 1
    /\ message # "error"

\* The remediation texts that send the reader to a manual review.
ManualReview == {"Check the contract manually", "manual review required"}

\* C5: a response without an extractable JSON object gives an Error verdict of
\* Low confidence whose remediation asks for a manual review.
C5_NoJsonIsManualReview ==
  (call.made /\ NoJsonInput /\ ~call.ret.fail) =>
    /\ ~call.out.raised
    /\ call.out.value.compliance_status = "Error"
    /\ call.out.value.confidence = "Low"
    /\ call.out.value.remediation \in ManualReview

\* C6: every verdict stored in a report has all required fields, a status of the
\* closed four-value set and a confidence of the closed three-value set.
C6_StoredVerdictsInClosedSets ==
  \A k \in DOMAIN results :
    /\ RequiredFields \subseteq DOMAIN results[k]
    /\ results[k].compliance_status \in Statuses
    /\ results[k].confidence \in Confidences

\* C7: an Error verdict made after a failed generation or a failed parse still
\* carries the chunks retrieval returned, in retrieval order.
C7_ErrorVerdictKeepsChunks ==
  (call.made /\ ~call.ret.fail /\ (call.gen.fail \/ NoJsonInput)) =>
    /\ ~call.out.raised
    /\ "relevant_sections" \in DOMAIN call.out.value
    /\ call.out.value.relevant_sections = call.ret.docs

\* C8: a valid JSON object wrapped in prose or code-fence markers gives the
\* verdict that json.loads of the object alone gives, never an Error verdict.
C8_NoiseParsesLikeObjectAlone ==
  (call.made /\ ~call.ret.fail /\ call.gen.shape \in NoiseShapes) =>
    /\ ~call.out.raised
    /\ json_loads(call.gen.json).ok
    /\ call.out.value =
         SetItem(json_loads(call.gen.json).val, "relevant_sections", call.ret.docs)

RECURSIVE SumOver(_, _)
SumOver(d, keys) ==
  IF keys = {} THEN 0
  ELSE LET k == CHOOSE x \in keys : TRUE IN d[k] + SumOver(d, keys \ {k})

\* C9: the summary counts of a displayed report have all four status keys and
\* sum to the number of entries of the report.
C9_SummaryHasFourKeys ==
  status_counts.shown =>
    /\ ~status_counts.raised
    /\ Statuses \subseteq DOMAIN status_counts.counts
    /\ SumOver(status_counts.counts, Statuses) = Cardinality(DOMAIN session_results.value)

\* C10: with zero chunks the context of the prompt is the sentinel sentence,
\* never the empty string; with chunks it is their contents joined in order.
C10_ContextIsSentinelOrJoin ==
  (call.made /\ call.out.prompted) =>
    /\ call.out.sections = << >> =>
         (call.out.context = "No relevant sections found." /\ call.out.context # "")
    /\ call.out.sections # << >> =>
         call.out.context = Join("\n\n", call.ret.docs)

-----------------------------------------------------------------------------
(* What src/compliance_checker.py alone guarantees (checked under SpecCalls) *)

\* Its retrieval failure is zero chunks and the call still returns a verdict.
Src_RetrievalFailureIsNoChunks ==
  (call.made /\ call.impl = "src" /\ call.ret.fail) =>
    (~call.out.raised /\ call.out.sections = << >> /\ call.out.genCalls = 1)

\* Its verdict for a response without JSON asks for a manual review.
Src_NoJsonIsManualReview ==
  (call.made /\ call.impl = "src" /\ NoJsonInput) =>
    /\ call.out.value.compliance_status = "Error"
    /\ call.out.value.confidence = "Low"
    /\ call.out.value.remediation \in ManualReview

\* Its context is the sentinel sentence when no chunk came back.
Src_ContextIsSentinelOrJoin ==
  (call.made /\ call.impl = "src") =>
    call.out.context =
      IF call.out.sections = << >> THEN "No relevant sections found."
      ELSE Join("\n\n", call.out.sections)

-----------------------------------------------------------------------------
(* The batch loop step by step *)

\* Fractions <<a, b>> with b > 0, compared by cross multiplication.
FracLess(p, q) == p[1] * q[2] < q[1] * p[2]

FracIsOne(p) == p[1] = p[2]

\* C11: the loop checks the rules one at a time in catalog order and, after the
\* i-th verdict is stored, reports progress i / (number of rules).  Every step
\* that changes i stores the verdict of exactly the next catalog rule, whose
\* check is the call just made, and reports the fraction i'/N, larger than the
\* one before; progress changes in no other step; and progress is 1 exactly
\* when the last rule has its verdict.
C11_ProgressPerRuleInOrder ==
  /\ [](FracIsOne(progress) <=> i = Len(Catalog))
  /\ [](pc = "loop" => DOMAIN results = {Catalog[n].id : n \in 1..i})
  /\ [][/\ i' # i =>
             /\ i' = i + 1
             /\ call'.made /\ call'.rule = Catalog[i'] /\ ~call'.out.raised
             /\ DOMAIN results' = DOMAIN results \cup {Catalog[i'].id}
             /\ results'[Catalog[i'].id] = call'.out.value
             /\ \A k \in DOMAIN results : results'[k] = results[k]
             /\ progress' = <<i', Len(Catalog)>>
             /\ FracLess(progress, progress')
        /\ progress' # progress => i' = i + 1]_vars

\* C11 witness: the last rule of the catalog has just been given its verdict
\* and the progress reported is N/N.
C11_Witness ==
  /\ pc = "loop"
  /\ i = Len(Catalog)
  /\ call.made /\ call.rule = Catalog[Len(Catalog)]
  /\ progress = <<Len(Catalog), Len(Catalog)>>
  /\ DOMAIN results = RuleIds


\* The generation or the parse of call c failed.
FailedCall(c) == c.made /\ (c.gen.fail \/ c.gen.shape \in {"no_json", "malformed"})

\* C12: within a run generate_content is called at most once per rule.  A step
\* that calls it does so once, for the next catalog rule, which has no verdict
\* yet; when the generation or the parse fails, that same step records the
\* rule's Error verdict and moves the loop on, so the failed call is not
\* repeated and the verdict is in place before the next rule's check.
C12_OneGenerationCallPerRule ==
  /\ [](\A k \in RuleIds : gen_calls[k] <= 1)
  /\ [](pc = "loop" => \A n \in 1..Len(Catalog) :
                         gen_calls[Catalog[n].id] = IF n <= i THEN 1 ELSE 0)
  /\ [][(pc = "loop" /\ call' # call) =>
          /\ \A k \in RuleIds \ {call'.rule.id} : gen_calls'[k] = gen_calls[k]
          /\ call'.rule.id \notin DOMAIN results
          /\ gen_calls'[call'.rule.id] <= 1
          /\ (FailedCall(call') /\ ~call'.out.raised) =>
               /\ gen_calls'[call'.rule.id] = 1
               /\ i' = i + 1
               /\ call'.rule.id \in DOMAIN results'
               /\ "compliance_status" \in DOMAIN results'[call'.rule.id]
               /\ results'[call'.rule.id].compliance_status = "Error"]_vars

\* C12 witness: the first rule's generation failed, its Error verdict is stored
\* after one call, and the loop has gone on to give the second rule a verdict.
C12_Witness ==
  /\ pc = "loop"
  /\ i = 2
  /\ {"compliance_status", "evidence"} \subseteq DOMAIN results[Catalog[1].id]
  /\ results[Catalog[1].id].compliance_status = "Error"
  /\ results[Catalog[1].id].evidence \in
       {"Error during analysis: generation failed", "Analysis error: generation failed"}
  /\ gen_calls[Catalog[1].id] = 1
  /\ gen_calls[Catalog[2].id] = 1
  /\ "compliance_status" \in DOMAIN results[Catalog[2].id]
  /\ results[Catalog[2].id].compliance_status = "Compliant"


\* C13: st.session_state.results is assigned only once the loop has given every
\* rule of the run a verdict, and then it is the run's whole report.  A run
\* that ends with an error (an exception leaving the loop, or one raised
\* before the loop) assigns nothing: its partial report is dropped and the
\* report published earlier, if any, stays as it was.  So a published report
\* never has fewer entries than there are rules.
C13_PublishOnlyCompleteReport ==
  /\ [](session_results.set => DOMAIN session_results.value = RuleIds)
  /\ [](message = "error" =>
          session_results \in {NoResults, [set |-> TRUE, value |-> EarlierReport]})
  /\ [][session_results' # session_results =>
          /\ pc = "loop"
          /\ i = Len(Catalog)
          /\ DOMAIN results = RuleIds
          /\ session_results' = [set |-> TRUE, value |-> results]
          /\ message' = "success"]_vars
  /\ [][message' = "error" => session_results' = session_results]_vars

\* C13 witness: a run with an earlier report aborted after its first rule got
\* a verdict; the earlier report is still the published one and is displayed.
C13_Witness ==
  /\ pc = "end"
  /\ message = "error"
  /\ call.made
  /\ call.out.raised
  /\ i >= 1
  /\ i < Len(Catalog)
  /\ DOMAIN results = {Catalog[n].id : n \in 1..i}
  /\ session_results = [set |-> TRUE, value |-> EarlierReport]
  /\ status_counts # NotShown

====
